---- MODULE Spec2Model ----
(***************************************************************************)
(* Model of interpolate_missing_z_on_line.py: the helper functions         *)
(* interpolate_z, idx_first_last_valid_items and fill_list_ends, and the   *)
(* per-feature loop of InterpolateMissingZOnLine.processAlgorithm.         *)
(*                                                                         *)
(* Numbers.  Z values and distances are Python floats.  They are modelled  *)
(* as exact rationals <<n, d>> in lowest terms with d > 0, so that equality*)
(* of two results is equality of the tuples.  Rounding is not modelled.    *)
(* Indexes.  The variables that hold Python indexes (vert_idx,             *)
(* end_interp_idx) hold the 0-based Python value; At(s, i) is s[i].        *)
(***************************************************************************)
EXTENDS Integers, Sequences, FiniteSets

VARIABLES
    pc,                 \* position in processAlgorithm / in the helper harness
    nodataz,            \* the 'NoData Z' parameter
    featureCount,       \* source.featureCount()
    current,            \* index of the feature of the running loop iteration
    feature,            \* the feature of the running loop iteration
    original_z_values,
    base_z_values,
    no_filled_vertices,
    dist,
    new_zs,
    vert_idx,
    end_interp_idx,
    start_interp_z,
    start_interp_dist,
    end_interp_z,
    end_interp_dist,
    sink,               \* the Z lists of the features added to the sink, in order
    err,                \* the exception that left processAlgorithm, if any
    fill_log            \* the calls of fill_list_ends made on its own: argument and result

vars == <<pc, nodataz, featureCount, current, feature, original_z_values,
          base_z_values, no_filled_vertices, dist, new_zs, vert_idx,
          end_interp_idx, start_interp_z, start_interp_dist, end_interp_z,
          end_interp_dist, sink, err, fill_log>>

----------------------------------------------------------------------------
(* Bounds of the model. *)

MaxLen == 5          \* most vertices of a line
MaxFillCalls == 2    \* times fill_list_ends is applied, each on the list it returned
BatchMaxLen == 3     \* most vertices of a line of a layer of several lines

ZInts == {0, 1, 2}         \* Z values a vertex may carry
NoDataInts == {0, 1}       \* values of the NoData Z parameter
SegInts == {0, 1}          \* lengths of a segment (0: coincident vertices)
FeatureCounts == {0, 1}    \* number of features of the layer

BatchSegInts == {0, 1}         \* lengths of a segment, layer of several lines
BatchNoDataInts == {0}         \* NoData Z parameter for such a layer (its default)
BatchFeatureCounts == {0, 1, 2}  \* number of features of such a layer

----------------------------------------------------------------------------
(* Floats as exact rationals. *)

RECURSIVE GCD(_, _)
GCD(a, b) == IF b = 0 THEN a ELSE GCD(b, a % b)

Abs(n) == IF n < 0 THEN -n ELSE n

Norm(n, d) ==
    LET g == GCD(Abs(n), Abs(d))
        s == IF d < 0 THEN -1 ELSE 1
    IN  <<(s * n) \div g, (s * d) \div g>>

Rat(n) == <<n, 1>>
RAdd(a, b) == Norm(a[1] * b[2] + b[1] * a[2], a[2] * b[2])
RSub(a, b) == Norm(a[1] * b[2] - b[1] * a[2], a[2] * b[2])
RMul(a, b) == Norm(a[1] * b[1], a[2] * b[2])

(* Python values that are not numbers or lists. *)
None == <<>>
Unbound == <<"unbound">>                  \* a local not assigned yet
ZeroDivisionError == <<"ZeroDivisionError">>
IndexError == <<"IndexError">>
UnboundLocalError == <<"UnboundLocalError">>
TypeError == <<"TypeError">>
FilledCountError == <<"QgsProcessingException", "filled">>
InterpCountError == <<"QgsProcessingException", "interpolated">>
NoError == <<"none">>

IsError(v) == v \in {ZeroDivisionError, IndexError, UnboundLocalError, TypeError}

(* a / b for floats: Python raises ZeroDivisionError when b == 0. *)
RDiv(a, b) ==
    IF b[1] = 0 THEN ZeroDivisionError
    ELSE Norm(a[1] * b[2], a[2] * b[1])

At(s, i) == s[i + 1]
Min(a, b) == IF a < b THEN a ELSE b

ZValues == {Rat(z) : z \in ZInts}
NoDataValues == {Rat(z) : z \in NoDataInts}
SegLengths == {Rat(s) : s \in SegInts}

SeqsUpTo(S, lo, hi) == UNION {[1..n -> S] : n \in lo..hi}

----------------------------------------------------------------------------
(* Helper functions. *)

interpolate_z(d_target, d_start, d_end, z_start, z_end) ==
    LET q == RDiv(RMul(RSub(z_end, z_start), RSub(d_target, d_start)),
                  RSub(d_end, d_start))
    IN  IF q = ZeroDivisionError THEN ZeroDivisionError ELSE RAdd(z_start, q)

(* for idx, e in enumerate(list_): the idx at which the loop breaks, which is *)
(* the first one with a valid item; Len(list_) when the loop ends unbroken   *)
RECURSIVE FirstValidFrom(_, _, _)
FirstValidFrom(l, invalid_item, idx) ==
    IF idx >= Len(l) THEN Len(l)
    ELSE IF At(l, idx) = invalid_item THEN FirstValidFrom(l, invalid_item, idx + 1)
    ELSE idx

(* for idx, e in enumerate(reversed(list_)): the same on the reversed list *)
RECURSIVE FirstValidFromEnd(_, _, _)
FirstValidFromEnd(l, invalid_item, idx) ==
    IF idx >= Len(l) THEN Len(l)
    ELSE IF At(l, Len(l) - idx - 1) = invalid_item
         THEN FirstValidFromEnd(l, invalid_item, idx + 1)
    ELSE idx

(* The pair of indexes, or the exception: a loop that ends unbroken leaves   *)
(* its idx_..._valid_item unassigned and the return statement raises.        *)
idx_first_last_valid_items(l, invalid_item) ==
    IF Len(l) = 0 THEN IndexError
    ELSE
    LET first_break == IF At(l, 0) # invalid_item THEN 0
                       ELSE FirstValidFrom(l, invalid_item, 0)
        last_break == IF At(l, Len(l) - 1) # invalid_item THEN 0
                      ELSE FirstValidFromEnd(l, invalid_item, 0)
        idx_first_valid_item == first_break
        idx_last_valid_item == Len(l) - last_break - 1
    IN  IF first_break >= Len(l) \/ last_break >= Len(l)
        THEN UnboundLocalError
        ELSE <<idx_first_valid_item, idx_last_valid_item>>

(* Variants of fill_list_ends, each with one slip in it.  They are used only  *)
(* to see that the properties below tell the function from its variants.     *)
FillVariant(l, invalid_item, all_check, inverted, tail_from_first, tail_filled, count_extra) ==
    IF all_check /\ (\A k \in 1..Len(l) : (l[k] = invalid_item) # inverted) THEN None
    ELSE IF ~(\E k \in 1..Len(l) : l[k] = invalid_item) THEN <<l, 0>>
    ELSE
    LET idx == idx_first_last_valid_items(l, invalid_item)
    IN  IF IsError(idx) THEN idx
        ELSE <<[k \in 1..Len(l) |->
                  IF k - 1 > idx[2] /\ tail_filled
                  THEN At(l, IF tail_from_first THEN idx[1] ELSE idx[2])
                  ELSE IF k - 1 < idx[1] THEN At(l, idx[1])
                  ELSE l[k]],
               Len(l) - idx[2] - 1 + idx[1] + count_extra>>

(* new_list[i] = list_[idx_first_valid_item] written for the tail as well *)
fill_list_ends_tail_from_first(l, invalid_item) ==
    FillVariant(l, invalid_item, TRUE, FALSE, TRUE, TRUE, 0)

(* the all-invalid check left out *)
fill_list_ends_no_all_check(l, invalid_item) ==
    FillVariant(l, invalid_item, FALSE, FALSE, FALSE, TRUE, 0)

(* all(e != invalid_item ...) written for all(e == invalid_item ...) *)
fill_list_ends_inverted_check(l, invalid_item) ==
    FillVariant(l, invalid_item, TRUE, TRUE, FALSE, TRUE, 0)

(* the second if of the loop left out: the tail is not filled *)
fill_list_ends_head_only(l, invalid_item) ==
    FillVariant(l, invalid_item, TRUE, FALSE, FALSE, FALSE, 0)

(* the - 1 of no_filled_item left out *)
fill_list_ends_count_off(l, invalid_item) ==
    FillVariant(l, invalid_item, TRUE, FALSE, FALSE, TRUE, 1)

fill_list_ends(l, invalid_item) ==
    IF \A k \in 1..Len(l) : l[k] = invalid_item THEN None
    ELSE IF ~(\E k \in 1..Len(l) : l[k] = invalid_item) THEN <<l, 0>>
    ELSE
    LET idx == idx_first_last_valid_items(l, invalid_item)
    IN  IF IsError(idx) THEN idx
        ELSE
        LET idx_first_valid_item == idx[1]
            idx_last_valid_item == idx[2]
            new_list == [k \in 1..Len(l) |->
                LET i == k - 1
                IN  IF i > idx_last_valid_item THEN At(l, idx_last_valid_item)
                    ELSE IF i < idx_first_valid_item THEN At(l, idx_first_valid_item)
                    ELSE l[k]]
            no_filled_item == Len(l) - idx_last_valid_item - 1 + idx_first_valid_item
        IN  <<new_list, no_filled_item>>

----------------------------------------------------------------------------
Init ==
    /\ pc = "start"
    /\ nodataz \in NoDataValues
    /\ featureCount \in FeatureCounts
    /\ current = 0
    /\ feature = None
    /\ original_z_values = <<>>
    /\ base_z_values = <<>>
    /\ no_filled_vertices = Unbound
    /\ dist = <<>>
    /\ new_zs = <<>>
    /\ vert_idx = 0
    /\ end_interp_idx = 0
    /\ start_interp_z = Unbound
    /\ start_interp_dist = Unbound
    /\ end_interp_z = Unbound
    /\ end_interp_dist = Unbound
    /\ sink = <<>>
    /\ err = NoError
    /\ fill_log = <<>>

----------------------------------------------------------------------------
(* processAlgorithm, lines 369-512: the loop over the features. *)

loopLocals == <<original_z_values, base_z_values, no_filled_vertices, dist,
                new_zs, vert_idx, end_interp_idx, start_interp_z,
                start_interp_dist, end_interp_z, end_interp_dist>>
anchorVars == <<start_interp_z, start_interp_dist, end_interp_z, end_interp_dist>>

(* A feature: the Z of the vertices of its line (feature.geometry().constGet()) *)
(* and the lengths of the segments between the points of                     *)
(* feature.geometry().asPolyline().  A well-formed feature has as many points *)
(* as vertices.                                                              *)
Features(maxlen) ==
    UNION {[z : [1..n -> ZValues], seg : [1..(n - 1) -> SegLengths]] : n \in 1..maxlen}

(* The same, with the number of points independent of the number of vertices. *)
MismatchedFeatures(maxlen) ==
    [z : SeqsUpTo(ZValues, 1, maxlen), seg : SeqsUpTo(SegLengths, 0, maxlen)]

(* source.getFeatures() and the start of the loop *)
Start ==
    /\ pc = "start"
    /\ pc' = "features"
    /\ UNCHANGED <<nodataz, featureCount, current, feature, loopLocals, sink, err, fill_log>>

(* line 369, 375-376: the next feature and its Z values *)
ReadFeature(candidates) ==
    /\ pc = "features"
    /\ current < featureCount
    /\ \E f \in candidates :
        /\ feature' = f
        /\ original_z_values' = f.z
    /\ pc' = "check"
    /\ UNCHANGED <<nodataz, featureCount, current, base_z_values, no_filled_vertices,
                   dist, new_zs, vert_idx, end_interp_idx, anchorVars, sink, err, fill_log>>

(* line 371-372: the cancel button was clicked *)
Cancel ==
    /\ pc = "features"
    /\ current < featureCount
    /\ pc' = "canceled"
    /\ UNCHANGED <<nodataz, featureCount, current, feature, loopLocals, sink, err, fill_log>>

(* line 369, 520: no feature is left *)
Return ==
    /\ pc = "features"
    /\ current = featureCount
    /\ pc' = "done"
    /\ UNCHANGED <<nodataz, featureCount, current, feature, loopLocals, sink, err, fill_log>>

(* line 381-388: no NoData Z in the line *)
PassNoMissing ==
    /\ pc = "check"
    /\ ~(\E k \in 1..Len(original_z_values) : original_z_values[k] = nodataz)
    /\ sink' = Append(sink, feature.z)
    /\ current' = current + 1
    /\ pc' = "features"
    /\ UNCHANGED <<nodataz, featureCount, feature, loopLocals, err, fill_log>>

(* A variant of PassAllMissing with one slip in it: the line is skipped       *)
(* without being added to the sink.                                          *)
PassAllMissing_dropped ==
    /\ pc = "check"
    /\ \E k \in 1..Len(original_z_values) : original_z_values[k] = nodataz
    /\ \A k \in 1..Len(original_z_values) : original_z_values[k] = nodataz
    /\ current' = current + 1
    /\ pc' = "features"
    /\ UNCHANGED <<nodataz, featureCount, feature, loopLocals, sink, err, fill_log>>

(* line 394-401: nothing but NoData Z in the line *)
PassAllMissing ==
    /\ pc = "check"
    /\ \E k \in 1..Len(original_z_values) : original_z_values[k] = nodataz
    /\ \A k \in 1..Len(original_z_values) : original_z_values[k] = nodataz
    /\ sink' = Append(sink, feature.z)
    /\ current' = current + 1
    /\ pc' = "features"
    /\ UNCHANGED <<nodataz, featureCount, feature, loopLocals, err, fill_log>>

Mixed(zs) ==
    /\ \E k \in 1..Len(zs) : zs[k] = nodataz
    /\ \E k \in 1..Len(zs) : zs[k] # nodataz

(* line 404-424: the ends of the line are filled when one of them is missing *)
FillEnds ==
    /\ pc = "check"
    /\ Mixed(original_z_values)
    /\ At(original_z_values, 0) = nodataz
        \/ At(original_z_values, Len(original_z_values) - 1) = nodataz
    /\ LET r == fill_list_ends(original_z_values, nodataz)
       IN  IF r = None
           THEN /\ err' = TypeError            \* None cannot be unpacked
                /\ pc' = "raised"
                /\ UNCHANGED <<base_z_values, no_filled_vertices>>
           ELSE IF IsError(r)
           THEN /\ err' = r
                /\ pc' = "raised"
                /\ base_z_values' = original_z_values
                /\ UNCHANGED no_filled_vertices
           ELSE /\ base_z_values' = r[1]
                /\ no_filled_vertices' = r[2]
                /\ IF Len(r[1]) # Len(original_z_values)
                   THEN err' = FilledCountError /\ pc' = "raised"
                   ELSE err' = err /\ pc' = "dist"
    /\ UNCHANGED <<nodataz, featureCount, current, feature, original_z_values, dist,
                   new_zs, vert_idx, end_interp_idx, anchorVars, sink, fill_log>>

(* line 404, 409: both ends are valid, the list is used as it is *)
KeepEnds ==
    /\ pc = "check"
    /\ Mixed(original_z_values)
    /\ At(original_z_values, 0) # nodataz
    /\ At(original_z_values, Len(original_z_values) - 1) # nodataz
    /\ base_z_values' = original_z_values
    /\ pc' = "dist"
    /\ UNCHANGED <<nodataz, featureCount, current, feature, original_z_values,
                   no_filled_vertices, dist, new_zs, vert_idx, end_interp_idx,
                   anchorVars, sink, err, fill_log>>

(* itertools.accumulate(seg_lengths) *)
RECURSIVE accumulate(_)
accumulate(s) ==
    IF Len(s) = 0 THEN <<>>
    ELSE LET init == accumulate(SubSeq(s, 1, Len(s) - 1))
         IN  Append(init, IF Len(init) = 0 THEN s[Len(s)]
                          ELSE RAdd(init[Len(init)], s[Len(s)]))

(* A variant of ComputeDist with one slip in it: end_interp_idx = 0 is left   *)
(* out of the loop over the features (set once, before it).                 *)
ComputeDist_no_reset ==
    /\ pc = "dist"
    /\ dist' = <<Rat(0)>> \o accumulate(feature.seg)
    /\ new_zs' = <<>>
    /\ vert_idx' = 0
    /\ pc' = "vertex"
    /\ UNCHANGED <<nodataz, featureCount, current, feature, original_z_values,
                   base_z_values, no_filled_vertices, end_interp_idx, anchorVars,
                   sink, err, fill_log>>

(* A variant of ComputeDist with one slip in it: the [0] of the first vertex  *)
(* is left out of dist.                                                      *)
ComputeDist_no_origin ==
    /\ pc = "dist"
    /\ dist' = accumulate(feature.seg)
    /\ new_zs' = <<>>
    /\ end_interp_idx' = 0
    /\ vert_idx' = 0
    /\ pc' = "vertex"
    /\ UNCHANGED <<nodataz, featureCount, current, feature, original_z_values,
                   base_z_values, no_filled_vertices, anchorVars, sink, err, fill_log>>

(* line 427-451: the distance of each vertex from the first one *)
ComputeDist ==
    /\ pc = "dist"
    /\ dist' = <<Rat(0)>> \o accumulate(feature.seg)
    /\ new_zs' = <<>>
    /\ end_interp_idx' = 0
    /\ vert_idx' = 0
    /\ pc' = "vertex"
    /\ UNCHANGED <<nodataz, featureCount, current, feature, original_z_values,
                   base_z_values, no_filled_vertices, anchorVars, sink, err, fill_log>>

(* line 467-468: while base_z_values[end_interp_idx] == nodataz: end_interp_idx += 1 *)
(* The index the loop stops at; Len(zs) when the read runs past the end.       *)
RECURSIVE ScanForward(_, _, _)
ScanForward(zs, invalid_item, idx) ==
    IF idx >= Len(zs) THEN Len(zs)
    ELSE IF At(zs, idx) = invalid_item THEN ScanForward(zs, invalid_item, idx + 1)
    ELSE idx

(* A variant of FindEnd with one slip in it: the end vertex is looked for     *)
(* only while none was found yet (end_interp_idx == 0).                       *)
FindEnd_found_once(zs, ds, invalid_item, idx, idx_in_hand, z_in_hand, dist_in_hand) ==
    IF idx_in_hand = 0
    THEN LET found == ScanForward(zs, invalid_item, idx + 1)
         IN  IF found >= Len(zs) THEN IndexError
             ELSE IF found >= Len(ds) THEN IndexError
             ELSE <<found, At(zs, found), At(ds, found)>>
    ELSE <<idx_in_hand, z_in_hand, dist_in_hand>>

(* line 465-471: the end vertex of the interpolation, looked for when the one  *)
(* in hand is not ahead of the vertex.  The result is the exception raised, or *)
(* the three variables as the block leaves them.                              *)
FindEnd(zs, ds, invalid_item, idx, idx_in_hand, z_in_hand, dist_in_hand) ==
    IF idx >= idx_in_hand
    THEN LET found == ScanForward(zs, invalid_item, idx + 1)
         IN  IF found >= Len(zs) THEN IndexError
             ELSE IF found >= Len(ds) THEN IndexError
             ELSE <<found, At(zs, found), At(ds, found)>>
    ELSE <<idx_in_hand, z_in_hand, dist_in_hand>>

(* line 453-477: one vertex of the line.  zip() stops at the shorter list. *)
Vertex ==
    /\ pc = "vertex"
    /\ vert_idx < Min(Len(dist), Len(base_z_values))
    /\ LET current_dist == At(dist, vert_idx)
           current_z == At(base_z_values, vert_idx)
       IN  IF current_z # nodataz
           THEN /\ start_interp_z' = current_z
                /\ start_interp_dist' = current_dist
                /\ new_zs' = Append(new_zs, current_z)
                /\ vert_idx' = vert_idx + 1
                /\ UNCHANGED <<end_interp_idx, end_interp_z, end_interp_dist, err, pc>>
           ELSE LET e == FindEnd(base_z_values, dist, nodataz, vert_idx,
                                 end_interp_idx, end_interp_z, end_interp_dist)
                IN  IF e = IndexError
                    THEN /\ err' = IndexError
                         /\ pc' = "raised"
                         /\ UNCHANGED <<end_interp_idx, end_interp_z, end_interp_dist,
                                        start_interp_z, start_interp_dist, new_zs, vert_idx>>
                    ELSE /\ end_interp_idx' = e[1]
                         /\ end_interp_z' = e[2]
                         /\ end_interp_dist' = e[3]
                         /\ UNCHANGED <<start_interp_z, start_interp_dist>>
                         /\ IF Unbound \in {start_interp_dist, start_interp_z, e[2], e[3]}
                            THEN /\ err' = UnboundLocalError
                                 /\ pc' = "raised"
                                 /\ UNCHANGED <<new_zs, vert_idx>>
                            ELSE LET new_z == interpolate_z(current_dist, start_interp_dist,
                                                           e[3], start_interp_z, e[2])
                                 IN  IF new_z = ZeroDivisionError
                                     THEN /\ err' = ZeroDivisionError
                                          /\ pc' = "raised"
                                          /\ UNCHANGED <<new_zs, vert_idx>>
                                     ELSE /\ new_zs' = Append(new_zs, new_z)
                                          /\ vert_idx' = vert_idx + 1
                                          /\ UNCHANGED <<err, pc>>
    /\ UNCHANGED <<nodataz, featureCount, current, feature, original_z_values,
                   base_z_values, no_filled_vertices, dist, sink, fill_log>>

(* zip(line, new_zs): the Z of the new line *)
ZipZ(line, zs) == SubSeq(zs, 1, Min(Len(line), Len(zs)))

(* line 479-512: the count is checked and the new line is added to the sink *)
WriteFeature ==
    /\ pc = "vertex"
    /\ vert_idx >= Min(Len(dist), Len(base_z_values))
    /\ IF Len(new_zs) # Len(base_z_values)
       THEN /\ err' = InterpCountError
            /\ pc' = "raised"
            /\ UNCHANGED <<sink, current>>
       ELSE /\ sink' = Append(sink, ZipZ(feature.z, new_zs))
            /\ current' = current + 1
            /\ pc' = "features"
            /\ UNCHANGED err
    /\ UNCHANGED <<nodataz, featureCount, feature, loopLocals, fill_log>>

----------------------------------------------------------------------------
(* The doctests of fill_list_ends: the function called on a list, and again  *)
(* on the list it returned.                                                 *)

pipelineVars == <<featureCount, current, feature, loopLocals, sink, err>>

CallFill ==
    /\ pc = "start"
    /\ \E l \in SeqsUpTo(ZValues, 1, MaxLen) :
        fill_log' = <<[list_ |-> l, ret |-> fill_list_ends(l, nodataz)]>>
    /\ pc' = "filled"
    /\ UNCHANGED <<nodataz, pipelineVars>>

CallFillAgain ==
    /\ pc = "filled"
    /\ Len(fill_log) < MaxFillCalls
    /\ LET ret == fill_log[Len(fill_log)].ret
       IN  /\ ret # None
           /\ ~IsError(ret)
           /\ fill_log' = Append(fill_log,
                                 [list_ |-> ret[1], ret |-> fill_list_ends(ret[1], nodataz)])
    /\ UNCHANGED <<pc, nodataz, pipelineVars>>

----------------------------------------------------------------------------
Next ==
    \/ Start
    \/ ReadFeature(Features(MaxLen))
    \/ Cancel
    \/ Return
    \/ PassNoMissing
    \/ PassAllMissing
    \/ FillEnds
    \/ KeepEnds
    \/ ComputeDist
    \/ Vertex
    \/ WriteFeature

Spec == Init /\ [][Next]_vars

NextFill == CallFill \/ CallFillAgain

SpecFill == Init /\ [][NextFill]_vars

NextMismatch ==
    \/ Start
    \/ ReadFeature(MismatchedFeatures(MaxLen))
    \/ Cancel
    \/ Return
    \/ PassNoMissing
    \/ PassAllMissing
    \/ FillEnds
    \/ KeepEnds
    \/ ComputeDist
    \/ Vertex
    \/ WriteFeature

SpecMismatch == Init /\ [][NextMismatch]_vars

(* A layer of several lines: the locals of processAlgorithm live on from one *)
(* iteration of the loop over the features to the next.                      *)
BatchFeatures(maxlen) ==
    UNION {[z : [1..n -> ZValues],
            seg : [1..(n - 1) -> {Rat(l) : l \in BatchSegInts}]] : n \in 1..maxlen}

InitBatch ==
    /\ pc = "start"
    /\ nodataz \in {Rat(z) : z \in BatchNoDataInts}
    /\ featureCount \in BatchFeatureCounts
    /\ current = 0
    /\ feature = None
    /\ original_z_values = <<>>
    /\ base_z_values = <<>>
    /\ no_filled_vertices = Unbound
    /\ dist = <<>>
    /\ new_zs = <<>>
    /\ vert_idx = 0
    /\ end_interp_idx = 0
    /\ start_interp_z = Unbound
    /\ start_interp_dist = Unbound
    /\ end_interp_z = Unbound
    /\ end_interp_dist = Unbound
    /\ sink = <<>>
    /\ err = NoError
    /\ fill_log = <<>>

NextBatch ==
    \/ Start
    \/ ReadFeature(BatchFeatures(BatchMaxLen))
    \/ Cancel
    \/ Return
    \/ PassNoMissing
    \/ PassAllMissing
    \/ FillEnds
    \/ KeepEnds
    \/ ComputeDist
    \/ Vertex
    \/ WriteFeature

SpecBatch == InitBatch /\ [][NextBatch]_vars

----------------------------------------------------------------------------
(* Properties of fill_list_ends, stated on the calls of fill_log. *)

Indexes(v) == 0..(Len(v) - 1)
HasValid(v, s) == \E i \in Indexes(v) : At(v, i) # s
HasInvalid(v, s) == \E i \in Indexes(v) : At(v, i) = s
AllInvalid(v, s) == \A i \in Indexes(v) : At(v, i) = s

(* index of the first / last entry that is not the sentinel *)
FirstValid(v, s) == CHOOSE i \in Indexes(v) : At(v, i) # s /\ \A j \in Indexes(v) : At(v, j) # s => i <= j
LastValid(v, s) == CHOOSE i \in Indexes(v) : At(v, i) # s /\ \A j \in Indexes(v) : At(v, j) # s => j <= i

(* a (list, count) pair: not None, not an exception *)
IsPair(r) == Len(r) = 2

(* C1: for a list with at least one sentinel and one non-sentinel entry,     *)
(* fill_list_ends returns (new, count): new[i] is values[first] before first, *)
(* values[last] after last and values[i] from first to last (sentinels there *)
(* included), and count is (N - 1 - last) + first.                           *)
C1_FillEndsMixed ==
    \A c \in 1..Len(fill_log) :
        LET values == fill_log[c].list_
            ret == fill_log[c].ret
            N == Len(values)
        IN  (HasValid(values, nodataz) /\ HasInvalid(values, nodataz)) =>
                LET first == FirstValid(values, nodataz)
                    last == LastValid(values, nodataz)
                IN  /\ IsPair(ret)
                    /\ Len(ret[1]) = N
                    /\ \A i \in Indexes(values) :
                        At(ret[1], i) = IF i < first THEN At(values, first)
                                        ELSE IF i > last THEN At(values, last)
                                        ELSE At(values, i)
                    /\ ret[2] = (N - 1 - last) + first

(* a call on a list with sentinels before, between and after its valid entries *)
C1_Witness ==
    /\ Len(fill_log) >= 1
    /\ LET values == fill_log[1].list_
       IN  /\ HasValid(values, nodataz)
           /\ At(values, 0) = nodataz
           /\ At(values, Len(values) - 1) = nodataz
           /\ \E i \in Indexes(values) :
                /\ At(values, i) = nodataz
                /\ FirstValid(values, nodataz) < i
                /\ i < LastValid(values, nodataz)
           /\ At(values, FirstValid(values, nodataz)) # At(values, LastValid(values, nodataz))
           /\ fill_log[1].ret[2] = 2

(* C2: for a list in which every element is the sentinel, fill_list_ends     *)
(* returns None and no (list, count) pair.                                   *)
C2_AllMissingIsNone ==
    \A c \in 1..Len(fill_log) :
        AllInvalid(fill_log[c].list_, nodataz) => fill_log[c].ret = None

C2_Witness ==
    /\ Len(fill_log) >= 1
    /\ Len(fill_log[1].list_) >= 2
    /\ AllInvalid(fill_log[1].list_, nodataz)
    /\ fill_log[1].ret = None

(* C3: for a list in which no element is the sentinel, fill_list_ends        *)
(* returns the list unchanged and the count 0.                               *)
C3_NoMissingUnchanged ==
    \A c \in 1..Len(fill_log) :
        ~HasInvalid(fill_log[c].list_, nodataz) =>
            fill_log[c].ret = <<fill_log[c].list_, 0>>

C3_Witness ==
    /\ Len(fill_log) = 1
    /\ Len(fill_log[1].list_) >= 2
    /\ ~HasInvalid(fill_log[1].list_, nodataz)
    /\ fill_log[1].ret[2] = 0

(* C4: whenever fill_list_ends returns a list, the list has a non-sentinel   *)
(* value at index 0 and at index N-1, and any sentinel left in it is         *)
(* strictly between the first and the last valid index of the input.         *)
C4_EndsValidAfterFill ==
    \A c \in 1..Len(fill_log) :
        LET values == fill_log[c].list_
            ret == fill_log[c].ret
        IN  ~AllInvalid(values, nodataz) =>
                /\ IsPair(ret)
                /\ At(ret[1], 0) # nodataz
                /\ At(ret[1], Len(values) - 1) # nodataz
                /\ \A i \in Indexes(ret[1]) :
                    At(ret[1], i) = nodataz =>
                        /\ FirstValid(values, nodataz) < i
                        /\ i < LastValid(values, nodataz)

(* a returned list whose two ends were filled and that keeps a sentinel inside *)
C4_Witness ==
    /\ Len(fill_log) >= 1
    /\ LET values == fill_log[1].list_
           ret == fill_log[1].ret
       IN  /\ IsPair(ret)
           /\ At(values, 0) = nodataz
           /\ At(values, Len(values) - 1) = nodataz
           /\ HasInvalid(ret[1], nodataz)
           /\ At(ret[1], 0) # nodataz
           /\ At(ret[1], Len(values) - 1) # nodataz

(* C5: fill_list_ends applied to the list a first call returned gives the    *)
(* count 0 and a list equal to the first call's.                             *)
C5_FillIdempotent ==
    \A c \in 2..Len(fill_log) :
        /\ fill_log[c].list_ = fill_log[c - 1].ret[1]
        /\ fill_log[c].ret = <<fill_log[c - 1].ret[1], 0>>

(* a second call on a list the first call had to fill, a sentinel left inside *)
C5_Witness ==
    /\ Len(fill_log) = 2
    /\ fill_log[1].ret[2] > 0
    /\ fill_log[1].ret[1] # fill_log[1].list_
    /\ HasInvalid(fill_log[2].list_, nodataz)
    /\ fill_log[2].ret[2] = 0

----------------------------------------------------------------------------
(* Properties of the feature loop. *)

(* the nearest valid entry behind / ahead of index i *)
BackwardAnchor(v, s, i) ==
    CHOOSE j \in Indexes(v) : j < i /\ At(v, j) # s /\ \A k \in (j + 1)..(i - 1) : At(v, k) = s
ForwardAnchor(v, s, i) ==
    CHOOSE k \in Indexes(v) : k > i /\ At(v, k) # s /\ \A j \in (i + 1)..(k - 1) : At(v, j) = s

(* z is on the line through (d0, z0) and (d1, z1) at d, with d0 # d1:         *)
(* (z - z0) * (d1 - d0) = (z1 - z0) * (d - d0)                                *)
OnLine(z, d, d0, d1, z0, z1) ==
    /\ d0 # d1
    /\ RMul(RSub(z, z0), RSub(d1, d0)) = RMul(RSub(z1, z0), RSub(d, d0))

(* The values output so far are the ones of the input or interpolated        *)
(* between the anchors of their own run, and the end vertex kept in          *)
(* end_interp_idx is the one of the run of the entry output last.            *)
OutputFromOwnAnchors ==
    \A i \in Indexes(new_zs) :
        IF At(base_z_values, i) # nodataz
        THEN At(new_zs, i) = At(base_z_values, i)
        ELSE LET b == BackwardAnchor(base_z_values, nodataz, i)
                 f == ForwardAnchor(base_z_values, nodataz, i)
             IN  /\ OnLine(At(new_zs, i), At(dist, i), At(dist, b), At(dist, f),
                           At(base_z_values, b), At(base_z_values, f))
                 /\ i = Len(new_zs) - 1 =>
                        /\ end_interp_idx = f
                        /\ end_interp_z = At(base_z_values, f)
                        /\ end_interp_dist = At(dist, f)
                        /\ start_interp_z = At(base_z_values, b)
                        /\ start_interp_dist = At(dist, b)

(* The loop gives up on an entry only where that interpolation is undefined, *)
(* the two anchors being at the same distance.                               *)
RaisesOnlyWhenUndefined ==
    pc = "raised" =>
        /\ err = ZeroDivisionError
        /\ At(base_z_values, vert_idx) = nodataz
        /\ At(dist, BackwardAnchor(base_z_values, nodataz, vert_idx))
             = At(dist, ForwardAnchor(base_z_values, nodataz, vert_idx))

(* C6: for values with valid first and last entries, the loop outputs at     *)
(* each index i values[i] when it is not the sentinel, and otherwise the     *)
(* linear interpolation at distances[i] between the nearest valid entry      *)
(* behind i and the nearest valid entry ahead of i, wherever the two are at  *)
(* different distances; the end vertex it keeps from one missing entry to    *)
(* the next is never the one of another run.                                 *)
C6_InterpolatedFromOwnAnchors == OutputFromOwnAnchors /\ RaisesOnlyWhenUndefined

(* a line of five vertices done, with two runs of one missing entry each     *)
(* whose interpolated values differ, the first one not a value of the input  *)
C6_Witness ==
    /\ pc = "vertex"
    /\ Len(new_zs) = 5
    /\ Len(base_z_values) = 5
    /\ At(base_z_values, 1) = nodataz
    /\ At(base_z_values, 2) # nodataz
    /\ At(base_z_values, 3) = nodataz
    /\ At(new_zs, 1) # At(new_zs, 3)
    /\ At(new_zs, 1)[2] # 1

DegenerateSegment == <<"DegenerateSegment">>

(* C7: when a missing entry is interpolated and its forward and backward     *)
(* anchors have the same distance, the failure reported is DegenerateSegment *)
(* and nothing is divided by zero.                                           *)
C7_DegenerateSegmentReported ==
    /\ err # ZeroDivisionError
    /\ \A i \in Indexes(base_z_values) :
        (/\ pc = "raised"
         /\ vert_idx = i
         /\ Len(dist) = Len(base_z_values)
         /\ At(base_z_values, 0) # nodataz
         /\ At(base_z_values, Len(base_z_values) - 1) # nodataz
         /\ At(base_z_values, i) = nodataz
         /\ At(dist, BackwardAnchor(base_z_values, nodataz, i))
              = At(dist, ForwardAnchor(base_z_values, nodataz, i)))
        => err = DegenerateSegment

(* C8: a line without the sentinel, or with nothing but the sentinel, is     *)
(* added to the sink with its values unchanged and neither fill_list_ends    *)
(* nor the interpolation runs on it; on any other line fill_list_ends runs   *)
(* only when index 0 or N-1 is the sentinel, then the interpolation, and the *)
(* new values are written in the order of the vertices.                      *)
C8_Step ==
    /\ (pc = "check" /\ ~Mixed(original_z_values)) =>
            /\ pc' = "features"
            /\ sink' = Append(sink, original_z_values)
            /\ UNCHANGED <<base_z_values, no_filled_vertices, dist, new_zs, vert_idx,
                           end_interp_idx, anchorVars, err>>
    /\ (pc = "check" /\ Mixed(original_z_values)) =>
            /\ pc' = "dist"
            /\ sink' = sink
            /\ IF At(original_z_values, 0) # nodataz
                  /\ At(original_z_values, Len(original_z_values) - 1) # nodataz
               THEN /\ base_z_values' = original_z_values
                    /\ UNCHANGED no_filled_vertices
               ELSE /\ no_filled_vertices' > 0
                    /\ At(base_z_values', 0) # nodataz
                    /\ At(base_z_values', Len(original_z_values) - 1) # nodataz
    /\ pc' \in {"dist", "vertex"} => Mixed(original_z_values')
    /\ (pc = "vertex" /\ sink' # sink) =>
            /\ Len(new_zs) = Len(original_z_values)
            /\ sink' = Append(sink, new_zs)
            /\ \A i \in Indexes(original_z_values) :
                At(original_z_values, i) # nodataz => At(new_zs, i) = At(original_z_values, i)
    /\ sink' # sink => pc \in {"check", "vertex"}

C8_OrchestrationPolicy == [][C8_Step]_vars

(* a line with a missing end and a missing inner entry is in the sink, filled *)
(* and interpolated                                                          *)
C8_Witness ==
    /\ pc = "features"
    /\ Len(sink) = 1
    /\ Mixed(original_z_values)
    /\ At(original_z_values, 0) = nodataz
    /\ base_z_values # original_z_values
    /\ new_zs # base_z_values
    /\ sink[1] = new_zs

(* C9: the list fill_list_ends returns has the length of its input, the list *)
(* the loop produces has the length of the values it was given, and neither  *)
(* of the two length exceptions of processAlgorithm is raised.               *)
C9_LengthsPreserved ==
    /\ pc \in {"dist", "vertex"} => Len(base_z_values) = Len(original_z_values)
    /\ (pc = "vertex" /\ vert_idx >= Min(Len(dist), Len(base_z_values))) =>
            Len(new_zs) = Len(base_z_values)
    /\ (pc = "features" /\ Mixed(original_z_values) /\ Len(sink) > 0) =>
            Len(sink[Len(sink)]) = Len(original_z_values)
    /\ err \notin {FilledCountError, InterpCountError}

(* the loop is through a line of MaxLen or more vertices whose ends were filled *)
C9_Witness ==
    /\ pc = "vertex"
    /\ vert_idx >= Min(Len(dist), Len(base_z_values))
    /\ base_z_values # original_z_values
    /\ Len(original_z_values) >= 5
    /\ Len(new_zs) = Len(original_z_values)
    /\ \E i \in Indexes(base_z_values) : At(base_z_values, i) = nodataz

LengthMismatch == <<"LengthMismatch">>

(* C10: when the values and the distances handed to the interpolation differ *)
(* in length, the interpolation ends in a LengthMismatch failure (any        *)
(* exception of the code is taken for one here); it never goes through with  *)
(* the lists cut to the shorter one and has the line written.                *)
C10_MismatchFailsFast ==
    (/\ Mixed(original_z_values)
     /\ Len(dist) # Len(base_z_values)
     /\ pc \notin {"check", "dist", "vertex"})
    => /\ pc = "raised"
       /\ err # NoError
       /\ sink = <<>>

(* C11: in the loop over the vertices of a line that went through the        *)
(* pass-through checks and the filling of its ends, the forward scan         *)
(* while base_z_values[end_interp_idx] == nodataz stops on a valid entry at  *)
(* an index <= N-1 and never reads past the end, and when a missing entry i  *)
(* is about to be interpolated start_interp_z and start_interp_dist have     *)
(* been assigned from the valid entry nearest behind i.                      *)
C11_ScanStaysInside ==
    /\ err \notin {IndexError, UnboundLocalError}
    /\ pc = "vertex" =>
        /\ end_interp_idx <= Len(base_z_values) - 1
        /\ At(base_z_values, end_interp_idx) # nodataz
        /\ (vert_idx < Len(base_z_values) /\ At(base_z_values, vert_idx) = nodataz) =>
            /\ \E k \in Indexes(base_z_values) :
                k > vert_idx /\ At(base_z_values, k) # nodataz
            /\ \E j \in Indexes(base_z_values) :
                /\ j < vert_idx
                /\ At(base_z_values, j) # nodataz
                /\ \A k \in (j + 1)..(vert_idx - 1) : At(base_z_values, k) = nodataz
                /\ start_interp_z = At(base_z_values, j)
                /\ start_interp_dist = At(dist, j)

(* the first vertex of the line was missing and filled, the scan has stopped *)
(* on the last vertex, and the second missing entry of the run is about to   *)
(* be interpolated                                                           *)
C11_Witness ==
    /\ pc = "vertex"
    /\ At(original_z_values, 0) = nodataz
    /\ end_interp_idx = Len(base_z_values) - 1
    /\ vert_idx < Len(base_z_values)
    /\ vert_idx >= 2
    /\ At(base_z_values, vert_idx) = nodataz
    /\ At(base_z_values, vert_idx - 1) = nodataz

----------------------------------------------------------------------------
(* What a line yields by itself, stated from its Z values, its segment       *)
(* lengths and the sentinel alone.                                           *)

(* distance of vertex i from vertex 0 *)
RECURSIVE DistanceTo(_, _)
DistanceTo(seg, i) == IF i = 0 THEN Rat(0) ELSE RAdd(DistanceTo(seg, i - 1), seg[i])

(* the Z values with the missing ends set to the nearest valid value *)
EndsFilled(v, s) ==
    [k \in 1..Len(v) |->
        IF k - 1 < FirstValid(v, s) THEN At(v, FirstValid(v, s))
        ELSE IF k - 1 > LastValid(v, s) THEN At(v, LastValid(v, s))
        ELSE v[k]]

(* a missing entry of the line lies between two valid entries at the same distance *)
HasDegenerateRun(f, s) ==
    /\ HasValid(f.z, s)
    /\ HasInvalid(f.z, s)
    /\ LET v == EndsFilled(f.z, s)
       IN  \E i \in Indexes(v) :
            /\ At(v, i) = s
            /\ DistanceTo(f.seg, BackwardAnchor(v, s, i))
                 = DistanceTo(f.seg, ForwardAnchor(v, s, i))

(* out is the list of Z values the line f yields *)
IsResultOf(f, s, out) ==
    IF ~HasInvalid(f.z, s) \/ AllInvalid(f.z, s)
    THEN out = f.z
    ELSE LET v == EndsFilled(f.z, s)
         IN  /\ Len(out) = Len(v)
             /\ \A i \in Indexes(v) :
                 IF At(v, i) # s
                 THEN At(out, i) = At(v, i)
                 ELSE OnLine(At(out, i), DistanceTo(f.seg, i),
                             DistanceTo(f.seg, BackwardAnchor(v, s, i)),
                             DistanceTo(f.seg, ForwardAnchor(v, s, i)),
                             At(v, BackwardAnchor(v, s, i)),
                             At(v, ForwardAnchor(v, s, i)))

(* C12: when several features are processed in one run of the loop, what is  *)
(* written for a feature, or the exception it ends in, depends on its own    *)
(* values, distances and the sentinel only, whatever features came before:   *)
(* end_interp_idx is 0 again when its vertices are entered, and the values   *)
(* of start_interp_z, start_interp_dist, end_interp_z and end_interp_dist    *)
(* that an interpolation reads were assigned from this feature.              *)
C12_NoCrossFeatureState ==
    /\ Len(sink) = current
    /\ (pc = "features" /\ current > 0) =>
            /\ IsResultOf(feature, nodataz, sink[current])
            /\ ~HasDegenerateRun(feature, nodataz)
    /\ pc = "raised" =>
            /\ err = ZeroDivisionError
            /\ HasDegenerateRun(feature, nodataz)
    /\ pc = "vertex" =>
            /\ vert_idx = 0 => end_interp_idx = 0
            /\ end_interp_idx > vert_idx =>
                    /\ end_interp_z = At(base_z_values, end_interp_idx)
                    /\ end_interp_dist = DistanceTo(feature.seg, end_interp_idx)
            /\ (vert_idx < Len(base_z_values) /\ At(base_z_values, vert_idx) = nodataz) =>
                    LET b == BackwardAnchor(base_z_values, nodataz, vert_idx)
                    IN  /\ start_interp_z = At(base_z_values, b)
                        /\ start_interp_dist = DistanceTo(feature.seg, b)

(* the second line of a layer is written, interpolated, after a first line   *)
(* that was interpolated to other values                                     *)
C12_Witness ==
    /\ pc = "features"
    /\ current = 2
    /\ Len(sink[1]) = 3
    /\ sink[1][2][2] # 1
    /\ Len(sink[2]) = 3
    /\ sink[2] = new_zs
    /\ new_zs # base_z_values
    /\ sink[2][2] # sink[1][2]
    /\ sink[2][3] # sink[1][3]

====
